---- MODULE Spec2Model ----
(***************************************************************************)
(* A model of styled-system-dark-mode (src/src/utils.js, src/src/index.js). *)
(*                                                                         *)
(* JavaScript strings are sequences of one-character strings, so that      *)
(* split, substring, toLowerCase and template literals are computed        *)
(* character by character.  JavaScript values are records                  *)
(*   [t |-> type tag, s |-> string payload, n |-> number payload,           *)
(*    o |-> own enumerable properties in key order]                         *)
(* and an object's properties are a sequence of [key, val] records in      *)
(* insertion order (the order Object.keys returns for keys that are not     *)
(* array indices).                                                          *)
(***************************************************************************)
EXTENDS Integers, Sequences, FiniteSets, TLC

VARIABLES
    pc,               \* the call in progress: which function runs / has returned
    name, cssName,    \* jsNameToCssName: argument and return value
    obj, prefix, suffix, objVars, refMap,
                      \* makeObjectVariables: arguments, return value, and keyVarMap of it
    light, dark,      \* default export: params.light, params.dark
    darkModeVars, lightModeVars, vars, darkModeCss, lightModeCss, css, defaultVars,
                      \* default export: its locals and the defaultVars captured by resolve
    value, window, resolved,
                      \* resolve: argument, rendering environment, return value
    oldThemeObject, newThemeObject, merged
                      \* mergeThemes: arguments and return value (or the error thrown)

vars_name == <<name, cssName>>
vars_tree == <<obj, prefix, suffix, objVars, refMap>>
vars_entry == <<light, dark, darkModeVars, lightModeVars, vars, darkModeCss,
                lightModeCss, css, defaultVars>>
vars_resolve == <<value, window, resolved>>
vars_merge == <<oldThemeObject, newThemeObject, merged>>
allVars == <<pc, vars_name, vars_tree, vars_entry, vars_resolve, vars_merge>>

----------------------------------------------------------------------------
(* Bounds of the model. *)

MaxNameLen == 3
MaxTreeNodes == 3
MaxLightNodes == 3
MaxPairNodes == 2
MaxMergeNodes == 2

----------------------------------------------------------------------------
(* JavaScript values. *)

JSUndefined == [t |-> "undefined", s |-> <<>>, n |-> 0, o |-> <<>>]
JSString(str) == [t |-> "string", s |-> str, n |-> 0, o |-> <<>>]
JSNumber(num) == [t |-> "number", s |-> <<>>, n |-> num, o |-> <<>>]
JSObject(props) == [t |-> "object", s |-> <<>>, n |-> 0, o |-> props]
TypeError == [t |-> "TypeError", s |-> <<>>, n |-> 0, o |-> <<>>]

\* ToBoolean: undefined, "" and 0 are falsy; objects and the rest are truthy.
Truthy(v) ==
    CASE v.t = "undefined" -> FALSE
      [] v.t = "string" -> v.s # <<>>
      [] v.t = "number" -> v.n # 0
      [] OTHER -> TRUE

Digits == <<"0", "1", "2", "3", "4", "5", "6", "7", "8", "9">>

\* Own enumerable properties of a value, as the spread operator and Object.keys
\* see them: an object's properties, a string's characters by index, nothing for
\* undefined or a number.
OwnProps(v) ==
    CASE v.t = "object" -> v.o
      [] v.t = "string" ->
            [i \in 1..Len(v.s) |-> [key |-> <<Digits[i]>>, val |-> JSString(<<v.s[i]>>)]]
      [] OTHER -> <<>>

HasKey(props, k) == \E i \in 1..Len(props) : props[i].key = k

Lookup(props, k) ==
    IF HasKey(props, k)
    THEN props[CHOOSE i \in 1..Len(props) : props[i].key = k].val
    ELSE JSUndefined

\* v[k]: a property read.  Reading a property of undefined throws a TypeError.
Get(v, k) == IF v.t = "undefined" THEN TypeError ELSE Lookup(OwnProps(v), k)

\* { ...props, [k]: v }: an existing key keeps its position and takes the new
\* value, a new key is appended.
Put(props, k, v) ==
    IF HasKey(props, k)
    THEN [i \in 1..Len(props) |->
            IF props[i].key = k THEN [key |-> k, val |-> v] ELSE props[i]]
    ELSE Append(props, [key |-> k, val |-> v])

RECURSIVE Spread(_, _)
\* { ...a, ...b } on property lists.
Spread(a, b) ==
    IF b = <<>> THEN a ELSE Spread(Put(a, Head(b).key, Head(b).val), Tail(b))

\* Object.keys
Keys(v) == [i \in 1..Len(OwnProps(v)) |-> OwnProps(v)[i].key]

RECURSIVE Concat(_)
\* The concatenation of a sequence of strings (a template literal's parts).
Concat(parts) == IF parts = <<>> THEN <<>> ELSE Head(parts) \o Concat(Tail(parts))

RECURSIVE join(_, _)
\* Array.prototype.join
join(parts, sep) ==
    IF parts = <<>> THEN <<>>
    ELSE IF Len(parts) = 1 THEN Head(parts)
    ELSE Head(parts) \o sep \o join(Tail(parts), sep)

----------------------------------------------------------------------------
(* utils.js: jsNameToCssName *)

UpperCase == {"A", "B", "C", "D", "E", "F", "G", "H", "I", "J", "K", "L", "M",
              "N", "O", "P", "Q", "R", "S", "T", "U", "V", "W", "X", "Y", "Z"}

LowerOf == [c \in UpperCase |->
    CASE c = "A" -> "a" [] c = "B" -> "b" [] c = "C" -> "c" [] c = "D" -> "d"
      [] c = "E" -> "e" [] c = "F" -> "f" [] c = "G" -> "g" [] c = "H" -> "h"
      [] c = "I" -> "i" [] c = "J" -> "j" [] c = "K" -> "k" [] c = "L" -> "l"
      [] c = "M" -> "m" [] c = "N" -> "n" [] c = "O" -> "o" [] c = "P" -> "p"
      [] c = "Q" -> "q" [] c = "R" -> "r" [] c = "S" -> "s" [] c = "T" -> "t"
      [] c = "U" -> "u" [] c = "V" -> "v" [] c = "W" -> "w" [] c = "X" -> "x"
      [] c = "Y" -> "y" [] c = "Z" -> "z"]

\* The lookahead class [A-Z_ ] of the split pattern.
IsSplitPoint(c) == c \in UpperCase \cup {"_", " "}

RECURSIVE splitFrom(_, _, _, _)
splitFrom(str, i, cur, segs) ==
    IF i > Len(str) THEN Append(segs, cur)
    ELSE IF i > 1 /\ IsSplitPoint(str[i])
         THEN splitFrom(str, i + 1, <<str[i]>>, Append(segs, cur))
         ELSE splitFrom(str, i + 1, Append(cur, str[i]), segs)

\* name.split(/(?=[A-Z_ ])/g): a cut before every character of the class except
\* at index 0 (an empty match at the start of the string makes no cut); the
\* character stays at the head of the segment that follows.
split(str) == splitFrom(str, 1, <<>>, <<>>)

RECURSIVE toLowerCase(_)
toLowerCase(str) ==
    IF str = <<>> THEN <<>>
    ELSE <<IF Head(str) \in UpperCase THEN LowerOf[Head(str)] ELSE Head(str)>>
         \o toLowerCase(Tail(str))

jsNameToCssName(str) == toLowerCase(join(split(str), <<"-">>))
----------------------------------------------------------------------------
(* utils.js: makeObjectVariables, varColorMap, keyVarMap, treeWalk, objectToCss *)

K_value == <<"v", "a", "l", "u", "e">>
K_var == <<"v", "a", "r">>
K_refVar == <<"r", "e", "f", "V", "a", "r">>

\* String(v), as a template literal's ${v} computes it.
TemplateString(v) ==
    CASE v.t = "string" -> v.s
      [] v.t = "number" -> <<Digits[v.n + 1]>>
      [] v.t = "undefined" -> <<"u", "n", "d", "e", "f", "i", "n", "e", "d">>
      [] OTHER -> <<"[", "o", "b", "j", "e", "c", "t", " ", "O", "b", "j", "e", "c", "t", "]">>

RECURSIVE makeObjectVariables(_, _, _)
RECURSIVE makeObjectVariablesFrom(_, _, _, _, _)
\* The reduce of makeObjectVariables over the keys still to visit.
makeObjectVariablesFrom(o, pre, suf, ks, accum) ==
    IF ks = <<>> THEN accum
    ELSE LET key == Head(ks)
             prefixStr == IF Truthy(pre) THEN TemplateString(pre) \o <<"-">> ELSE <<>>
             suffixStr == IF Truthy(suf) THEN <<"-">> \o TemplateString(suf) ELSE <<>>
             nm == Concat(<<prefixStr, jsNameToCssName(key), suffixStr>>)
             node == JSObject(<<
                 [key |-> K_value,
                  val |-> IF Get(o, key).t = "string"
                          THEN Get(o, key)
                          ELSE makeObjectVariables(Get(o, key),
                                                   JSString(prefixStr \o key), suf)],
                 [key |-> K_var, val |-> JSString(<<"-", "-">> \o nm)],
                 [key |-> K_refVar,
                  val |-> JSString(Concat(<<
                              <<"v", "a", "r", "(", "-", "-">>, nm, <<")">> >>))] >>)
         IN makeObjectVariablesFrom(o, pre, suf, Tail(ks), Put(accum, key, node))

makeObjectVariables(o, pre, suf) ==
    JSObject(makeObjectVariablesFrom(o, pre, suf, Keys(o), <<>>))

RECURSIVE varColorMap(_)
RECURSIVE varColorMapFrom(_, _, _)
varColorMapFrom(o, ks, accum) ==
    IF ks = <<>> THEN accum
    ELSE LET key == Head(ks)
             val == Get(Get(o, key), K_value)
         IN varColorMapFrom(o, Tail(ks),
                Put(accum, Get(Get(o, key), K_var).s,
                    IF val.t = "string" THEN val ELSE varColorMap(val)))

varColorMap(o) == JSObject(varColorMapFrom(o, Keys(o), <<>>))

RECURSIVE keyVarMap(_)
RECURSIVE keyVarMapFrom(_, _, _)
keyVarMapFrom(o, ks, accum) ==
    IF ks = <<>> THEN accum
    ELSE LET key == Head(ks)
         IN keyVarMapFrom(o, Tail(ks),
                Put(accum, key,
                    IF Get(Get(o, key), K_value).t = "string"
                    THEN Get(Get(o, key), K_refVar)
                    ELSE keyVarMap(Get(Get(o, key), K_value))))

\* keyVarMap with the leaf test dropped: every key, branch or leaf, maps to its refVar.
keyVarMap_noDescent(o) ==
    JSObject([i \in 1..Len(Keys(o)) |->
                [key |-> Keys(o)[i], val |-> Get(Get(o, Keys(o)[i]), K_refVar)]])

keyVarMap(o) == JSObject(keyVarMapFrom(o, Keys(o), <<>>))

RECURSIVE treeWalk(_)
RECURSIVE treeWalkFrom(_, _, _)
treeWalkFrom(o, ks, accum) ==
    IF ks = <<>> THEN accum
    ELSE LET key == Head(ks)
         IN treeWalkFrom(o, Tail(ks),
                Spread(accum,
                       IF Get(o, key).t = "string"
                       THEN <<[key |-> key, val |-> Get(o, key)]>>
                       ELSE OwnProps(treeWalk(Get(o, key)))))

treeWalk(o) == JSObject(treeWalkFrom(o, Keys(o), <<>>))

\* `${kv.property}: ${kv.value};`
declaration(property, val) == Concat(<<property, <<":", " ">>, TemplateString(val), <<";">> >>)

objectToCss(o) ==
    join([i \in 1..Len(Keys(o)) |-> declaration(Keys(o)[i], Get(o, Keys(o)[i]))],
         <<"\n">>)

----------------------------------------------------------------------------
(* index.js: resolveFactory, the default export, mergeThemes *)

Min(a, b) == IF a < b THEN a ELSE b
Max(a, b) == IF a > b THEN a ELSE b

\* String.prototype.substring(from, to) with 0-based indices: both are clamped to
\* [0, length] and swapped when from > to.
substring(str, from, to) ==
    LET a == Min(Max(from, 0), Len(str))
        b == Min(Max(to, 0), Len(str))
    IN SubSeq(str, Min(a, b) + 1, Max(a, b))

\* The flattened property map of one theme, as index.js computes it twice.
flatVars(modeVars) == treeWalk(varColorMap(modeVars))

\* window.getComputedStyle(document.documentElement).getPropertyValue(n) on a page
\* that carries the stylesheet: the dark block follows the light block, so under
\* the dark scheme a property declared there overrides; an undeclared property
\* reads as the empty string.
getPropertyValue(scheme, lightVars, darkVars, n) ==
    LET l == flatVars(lightVars)
        d == flatVars(darkVars)
    IN IF scheme = "dark" /\ HasKey(OwnProps(d), n) THEN Get(d, n)
       ELSE IF HasKey(OwnProps(l), n) THEN Get(l, n)
       ELSE JSString(<<>>)

\* resolveFactory(defaults)(v) with `typeof window` given by win.
resolve(defaults, v, win, lightVars, darkVars) ==
    IF substring(v.s, 0, 5) # <<"v", "a", "r", "(", "-", "-">> THEN v
    ELSE LET lookupVal == substring(v.s, 4, Len(v.s) - 1)
         IN IF win = "undefined" THEN Get(defaults, lookupVal)
            ELSE getPropertyValue(win, lightVars, darkVars, lookupVal)

\* x || {}
OrEmpty(x) == IF Truthy(x) THEN x ELSE JSObject(<<>>)

\* The css template literal of the default export.
stylesheet(lightCss, darkCss) ==
    Concat(<<
        <<":", "r", "o", "o", "t", " ", "{", " ">>, lightCss, <<" ", "}">>,
        <<"@", "m", "e", "d", "i", "a", " ", "(", "p", "r", "e", "f", "e", "r", "s", "-",
          "c", "o", "l", "o", "r", "-", "s", "c", "h", "e", "m", "e", ":", " ",
          "d", "a", "r", "k", ")", "{", " ", ":", "r", "o", "o", "t", " ", "{", " ">>,
        darkCss, <<" ", "}", " ", "}">> >>)

\* vars with the two spreads exchanged: { ...keyVarMap(light), ...keyVarMap(dark) }.
mergeVars_darkLast(dVars, lVars) ==
    JSObject(Spread(OwnProps(keyVarMap(lVars)), OwnProps(keyVarMap(dVars))))

\* vars of the default export: { ...keyVarMap(dark), ...keyVarMap(light) }.
mergeVars(dVars, lVars) ==
    JSObject(Spread(OwnProps(keyVarMap(dVars)), OwnProps(keyVarMap(lVars))))

RECURSIVE mergeThemes(_, _)
RECURSIVE mergeThemesFrom(_, _, _, _)
\* The reduce of mergeThemes over the keys still to visit; a TypeError thrown while
\* a key's value is computed ends the whole call.
mergeThemesFrom(old, new, ks, accum) ==
    IF ks = <<>> THEN JSObject(accum)
    ELSE LET key == Head(ks)
             nv == Get(new, key)
             v == IF nv.t = "object"
                  THEN IF Get(old, key).t = "TypeError" THEN TypeError
                       ELSE mergeThemes(Get(old, key), OrEmpty(nv))
                  ELSE IF Truthy(nv) THEN nv ELSE Get(old, key)
         IN IF v.t = "TypeError" THEN TypeError
            ELSE mergeThemesFrom(old, new, Tail(ks), Put(accum, key, v))

mergeThemes(old, new) ==
    mergeThemesFrom(old, new,
                    Keys(JSObject(Spread(OwnProps(old), OwnProps(new)))), <<>>)

----------------------------------------------------------------------------
(* The inputs: bounded sets of names and of nested key-value objects. *)

NameChars == {"a", "B", "_", " ", "-"}

Names == UNION {[1..n -> NameChars] : n \in 0..MaxNameLen}

S_fontWeight == <<"f", "o", "n", "t", "W", "e", "i", "g", "h", "t">>
S_bg_color == <<"b", "g", "_", "c", "o", "l", "o", "r">>

RECURSIVE ObjectsOfSize(_, _, _)
RECURSIVE EntriesOfSize(_, _, _)
\* The property lists with exactly n nodes (keys at any depth), distinct keys
\* among siblings, keys from keySet and leaves from leafSet, in every key order.
ObjectsOfSize(n, keySet, leafSet) ==
    IF n = 0 THEN {<<>>}
    ELSE UNION { LET first == EntriesOfSize(k, keySet, leafSet)
                     others == ObjectsOfSize(n - k, keySet, leafSet)
                 IN UNION { { <<e>> \o rest :
                                rest \in {r \in others : ~HasKey(r, e.key)} } :
                            e \in first } :
                 k \in 1..n }

EntriesOfSize(n, keySet, leafSet) ==
    (IF n = 1 THEN {[key |-> k, val |-> l] : k \in keySet, l \in leafSet} ELSE {})
    \cup {[key |-> k, val |-> JSObject(sub)] :
            k \in keySet, sub \in ObjectsOfSize(n - 1, keySet, leafSet)}

Objects(maxNodes, keySet, leafSet) ==
    {JSObject(o) : o \in UNION {ObjectsOfSize(n, keySet, leafSet) : n \in 0..maxNodes}}

Colours == {JSString(<<"x">>), JSString(<<"y">>)}

\* Leaves of the trees given to makeObjectVariables: a colour and the empty string.
TreeLeaves == {JSString(<<"x">>), JSString(<<>>)}

ThemeKeys == {<<"a">>, <<"a", "B">>, <<"a", "-", "b">>}
PairKeys == {<<"a">>, <<"a", "B">>}
MergeKeys == {<<"a">>, <<"b">>}
MergeLeaves == {JSString(<<>>), JSString(<<"x">>), JSNumber(0), JSNumber(1)}

RECURSIVE Recolour(_)
\* The same tree with every leaf colour exchanged for the other one: a dark theme
\* with the key structure of the light one.
Recolour(v) ==
    IF v.t = "string"
    THEN (IF v.s = <<"x">> THEN JSString(<<"y">>) ELSE JSString(<<"x">>))
    ELSE JSObject([i \in 1..Len(v.o) |->
                     [key |-> v.o[i].key, val |-> Recolour(v.o[i].val)]])

RECURSIVE LeafValues(_)
\* The set of string leaves of a nested object.
LeafValues(v) ==
    IF v.t = "object" THEN UNION {LeafValues(v.o[i].val) : i \in 1..Len(v.o)}
    ELSE {v}

S_var_text == <<"v", "a", "r", "(", "-", "-", "t", "e", "x", "t", ")">>

----------------------------------------------------------------------------
(* The state machine: one action per exported function. *)

IdleName == name = JSUndefined /\ cssName = JSUndefined
IdleTree == /\ obj = JSUndefined /\ prefix = JSUndefined /\ suffix = JSUndefined
            /\ objVars = JSUndefined /\ refMap = JSUndefined
IdleEntryResults ==
    /\ darkModeVars = JSUndefined /\ lightModeVars = JSUndefined
    /\ vars = JSUndefined /\ darkModeCss = JSUndefined /\ lightModeCss = JSUndefined
    /\ css = JSUndefined /\ defaultVars = JSUndefined
IdleEntry == light = JSUndefined /\ dark = JSUndefined /\ IdleEntryResults
IdleResolve == value = JSUndefined /\ window = "undefined" /\ resolved = JSUndefined
IdleMerge == /\ oldThemeObject = JSUndefined /\ newThemeObject = JSUndefined
             /\ merged = JSUndefined

InitName ==
    /\ pc = "jsNameToCssName"
    /\ name \in {JSString(str) : str \in Names \cup {S_fontWeight, S_bg_color}}
    /\ cssName = JSUndefined
    /\ IdleTree /\ IdleEntry /\ IdleResolve /\ IdleMerge

JsNameToCssName ==
    /\ pc = "jsNameToCssName"
    /\ cssName' = JSString(jsNameToCssName(name.s))
    /\ pc' = "done"
    /\ UNCHANGED <<name, vars_tree, vars_entry, vars_resolve, vars_merge>>

NextName == JsNameToCssName

SpecName == InitName /\ [][NextName]_allVars

InitTree ==
    /\ pc = "makeObjectVariables"
    /\ obj \in Objects(MaxTreeNodes, ThemeKeys, TreeLeaves)
    /\ prefix \in {JSUndefined, JSString(<<"p">>)}
    /\ suffix \in {JSUndefined, JSString(<<"s">>)}
    /\ objVars = JSUndefined /\ refMap = JSUndefined
    /\ IdleName /\ IdleEntry /\ IdleResolve /\ IdleMerge

MakeObjectVariables ==
    /\ pc = "makeObjectVariables"
    /\ objVars' = makeObjectVariables(obj, prefix, suffix)
    /\ pc' = "keyVarMap"
    /\ UNCHANGED <<obj, prefix, suffix, refMap, vars_name, vars_entry, vars_resolve,
                   vars_merge>>

KeyVarMap ==
    /\ pc = "keyVarMap"
    /\ refMap' = keyVarMap(objVars)
    /\ pc' = "done"
    /\ UNCHANGED <<obj, prefix, suffix, objVars, vars_name, vars_entry, vars_resolve,
                   vars_merge>>

NextTree == MakeObjectVariables \/ KeyVarMap

SpecTree == InitTree /\ [][NextTree]_allVars

\* The default export called with themes of identical key structure (the
\* documented contract), either of which may be absent.
InitEntry ==
    /\ pc = "makeDarkMode"
    /\ \E t \in Objects(MaxLightNodes, ThemeKeys, Colours) :
          /\ light \in {JSUndefined, t}
          /\ dark \in {JSUndefined, Recolour(t)}
    /\ IdleEntryResults
    /\ IdleName /\ IdleTree /\ IdleResolve /\ IdleMerge

\* The default export called with two unrelated themes.
InitPair ==
    /\ pc = "makeDarkMode"
    /\ light \in Objects(MaxPairNodes, PairKeys, Colours) \cup {JSUndefined}
    /\ dark \in Objects(MaxPairNodes, PairKeys, Colours) \cup {JSUndefined}
    /\ IdleEntryResults
    /\ IdleName /\ IdleTree /\ IdleResolve /\ IdleMerge

MakeDarkMode ==
    /\ pc = "makeDarkMode"
    /\ LET dVars == makeObjectVariables(OrEmpty(dark), JSUndefined, JSUndefined)
           lVars == makeObjectVariables(OrEmpty(light), JSUndefined, JSUndefined)
           dCss == objectToCss(flatVars(dVars))
           lCss == objectToCss(flatVars(lVars))
       IN /\ darkModeVars' = dVars
          /\ lightModeVars' = lVars
          /\ vars' = mergeVars(dVars, lVars)
          /\ darkModeCss' = JSString(dCss)
          /\ lightModeCss' = JSString(lCss)
          /\ css' = JSString(stylesheet(lCss, dCss))
          /\ defaultVars' = flatVars(lVars)
    /\ pc' = "returned"
    /\ UNCHANGED <<light, dark, vars_name, vars_tree, vars_resolve, vars_merge>>

\* The strings a caller passes to resolve: a reference found in vars, a literal
\* colour, or the reference of a property no theme defines.
ResolveArgs == LeafValues(vars) \cup Colours \cup {JSString(S_var_text)}

Resolve ==
    /\ pc = "returned"
    /\ \E v \in ResolveArgs, w \in {"undefined", "light", "dark"} :
          /\ value' = v
          /\ window' = w
          /\ resolved' = resolve(defaultVars, v, w, lightModeVars, darkModeVars)
    /\ pc' = "resolved"
    /\ UNCHANGED <<vars_name, vars_tree, vars_entry, vars_merge>>

NextEntry == MakeDarkMode \/ Resolve

SpecEntry == InitEntry /\ [][NextEntry]_allVars

NextPair == MakeDarkMode

SpecPair == InitPair /\ [][NextPair]_allVars

InitMerge ==
    /\ pc = "mergeThemes"
    /\ oldThemeObject \in Objects(MaxMergeNodes, MergeKeys, MergeLeaves)
    /\ newThemeObject \in Objects(MaxMergeNodes, MergeKeys, MergeLeaves)
    /\ merged = JSUndefined
    /\ IdleName /\ IdleTree /\ IdleEntry /\ IdleResolve

MergeThemes ==
    /\ pc = "mergeThemes"
    /\ merged' = mergeThemes(oldThemeObject, newThemeObject)
    /\ pc' = "done"
    /\ UNCHANGED <<oldThemeObject, newThemeObject, vars_name, vars_tree, vars_entry,
                   vars_resolve>>

NextMerge == MergeThemes

SpecMerge == InitMerge /\ [][NextMerge]_allVars

----------------------------------------------------------------------------
(* Vocabulary of the properties. *)

RECURSIVE LeafNodes(_)
\* The leaves of a Variable-Tree in depth-first key order, each with its
\* generated property name and its value.
LeafNodes(vt) ==
    Concat([i \in 1..Len(vt.o) |->
              LET node == vt.o[i].val
              IN IF Get(node, K_value).t = "string"
                 THEN <<[var |-> Get(node, K_var).s, value |-> Get(node, K_value).s]>>
                 ELSE LeafNodes(Get(node, K_value))])

RECURSIVE CountLeaves(_)
\* The number of string leaves of a ThemeTree.
CountLeaves(tree) ==
    IF tree.t = "string" THEN 1
    ELSE IF tree.o = <<>> THEN 0
    ELSE CountLeaves(Head(tree.o).val) + CountLeaves(JSObject(Tail(tree.o)))

Distinct(seq) == \A i, j \in 1..Len(seq) : i # j => seq[i] # seq[j]

RECURSIVE LinesFrom(_, _, _)
LinesFrom(str, cur, out) ==
    IF str = <<>> THEN Append(out, cur)
    ELSE IF Head(str) = "\n" THEN LinesFrom(Tail(str), <<>>, Append(out, cur))
    ELSE LinesFrom(Tail(str), Append(cur, Head(str)), out)

\* The declarations of a block: its newline-separated lines, none for an empty block.
Lines(str) == IF str = <<>> THEN <<>> ELSE LinesFrom(str, <<>>, <<>>)

RECURSIVE UpToColon(_)
\* The property name a declaration sets: the text before its first colon.
UpToColon(line) ==
    IF line = <<>> \/ Head(line) = ":" THEN <<>>
    ELSE <<Head(line)>> \o UpToColon(Tail(line))

DeclaredNames(block) == {UpToColon(Lines(block)[i]) : i \in 1..Len(Lines(block))}

\* `--name: value;` written out for one leaf.
ExpectedDeclaration(leaf) == leaf.var \o <<":", " ">> \o leaf.value \o <<";">>

ExpectedBlock(vt) ==
    join([i \in 1..Len(LeafNodes(vt)) |-> ExpectedDeclaration(LeafNodes(vt)[i])],
         <<"\n">>)

Occurrences(seq, x) == Cardinality({i \in 1..Len(seq) : seq[i] = x})

\* `var(<name>)`
ReferenceTo(n) == <<"v", "a", "r", "(">> \o n \o <<")">>

S_root_open == <<":", "r", "o", "o", "t", " ", "{", " ">>
S_media_open == <<"@", "m", "e", "d", "i", "a", " ", "(", "p", "r", "e", "f", "e", "r",
                  "s", "-", "c", "o", "l", "o", "r", "-", "s", "c", "h", "e", "m", "e",
                  ":", " ", "d", "a", "r", "k", ")", "{", " ">>

----------------------------------------------------------------------------
(* C4 *)

\* A camelCase or snake_case identifier: it starts with a lower-case letter, holds
\* only letters and underscores, and does not end with an underscore.
IsIdentifier(str) ==
    /\ str # <<>>
    /\ Head(str) \notin UpperCase \cup {"_", " ", "-"}
    /\ str[Len(str)] # "_"
    /\ \A i \in 1..Len(str) : str[i] \notin {" ", "-"}

\* C4: jsNameToCssName maps every camelCase or snake_case identifier to a name with
\* no underscore, space or upper-case letter, fontWeight to font-weight, bg_color to
\* bg-color, and the empty string to the empty string.
C4_NameDerivation ==
    pc = "done" =>
        /\ IsIdentifier(name.s) =>
              \A i \in 1..Len(cssName.s) : cssName.s[i] \notin UpperCase \cup {"_", " "}
        /\ name.s = S_fontWeight =>
              cssName.s = <<"f", "o", "n", "t", "-", "w", "e", "i", "g", "h", "t">>
        /\ name.s = S_bg_color =>
              cssName.s = <<"b", "g", "-", "c", "o", "l", "o", "r">>
        /\ name.s = <<>> => cssName.s = <<>>

----------------------------------------------------------------------------
(* C3 *)

\* C3: in the Variable-Tree makeObjectVariables returns for a tree whose sibling
\* keys are distinct, the property names of the leaves are pairwise distinct.
C3_UniqueLeafNames ==
    pc \in {"keyVarMap", "done"} =>
        Distinct([i \in 1..Len(LeafNodes(objVars)) |-> LeafNodes(objVars)[i].var])

----------------------------------------------------------------------------
(* C8 *)

RECURSIVE SameShape(_, _, _)
\* ref has the keys of tree in the same order; where tree has a leaf, ref has the
\* string var(<property name of that leaf in vt>); where tree has a subtree, ref
\* has a subtree of the same shape.
SameShape(tree, ref, vt) ==
    /\ ref.t = "object"
    /\ Keys(ref) = Keys(tree)
    /\ \A i \in 1..Len(tree.o) :
          LET key == tree.o[i].key
          IN IF tree.o[i].val.t = "string"
             THEN Get(ref, key) = JSString(ReferenceTo(Get(Get(vt, key), K_var).s))
             ELSE SameShape(tree.o[i].val, Get(ref, key), Get(Get(vt, key), K_value))

\* C8: keyVarMap(makeObjectVariables(T)) has exactly the key structure of T, with
\* each leaf replaced by the reference to the property name generated for it.
C8_ShapePreserved == pc = "done" => SameShape(obj, refMap, objVars)

\* A tree with a leaf below a subtree, next to an empty subtree, has been mapped.
C8_Witness ==
    /\ pc = "done"
    /\ \E i, j \in 1..Len(obj.o) :
          /\ obj.o[i].val.t = "object"
          /\ obj.o[i].val.o # <<>>
          /\ Head(obj.o[i].val.o).val.t = "string"
          /\ obj.o[j].val = JSObject(<<>>)

----------------------------------------------------------------------------
(* C7 *)

TopKeys(theme) == {OrEmpty(theme).o[i].key : i \in 1..Len(OrEmpty(theme).o)}

\* C7 as stated: for a top-level key both themes define, vars holds the entry
\* computed from the dark theme; a key only one theme defines takes that entry.
C7_DarkWins ==
    pc = "returned" =>
        \A key \in TopKeys(dark) \cup TopKeys(light) :
            Get(vars, key) = IF key \in TopKeys(dark)
                             THEN Get(keyVarMap(darkModeVars), key)
                             ELSE Get(keyVarMap(lightModeVars), key)

\* C7 amended: for a top-level key both themes define, vars holds the entry
\* computed from the light theme; a key only one theme defines takes that entry;
\* vars has no other key.
C7_LightWins ==
    pc = "returned" =>
        /\ {Keys(vars)[i] : i \in 1..Len(Keys(vars))} = TopKeys(dark) \cup TopKeys(light)
        /\ \A key \in TopKeys(dark) \cup TopKeys(light) :
              Get(vars, key) = IF key \in TopKeys(light)
                               THEN Get(keyVarMap(lightModeVars), key)
                               ELSE Get(keyVarMap(darkModeVars), key)

\* The themes share a top-level key at which their entries differ, and one theme
\* has a key the other lacks.
C7_Witness ==
    /\ pc = "returned"
    /\ \E key \in TopKeys(dark) \cap TopKeys(light) :
          Get(keyVarMap(darkModeVars), key) # Get(keyVarMap(lightModeVars), key)
    /\ TopKeys(dark) \ TopKeys(light) # {}

----------------------------------------------------------------------------
(* C1 *)

\* C1: with no rendering environment, resolve applied to the reference var(--n) of
\* a light leaf (its property name --n shared with no other leaf) returns that
\* leaf's light value.
C1_ResolverFallback ==
    (pc = "resolved" /\ window = "undefined" /\ Truthy(light) /\ Truthy(dark)) =>
        \A i \in 1..Len(LeafNodes(lightModeVars)) :
            LET leaf == LeafNodes(lightModeVars)[i]
            IN (/\ value.s = ReferenceTo(leaf.var)
                /\ Occurrences([j \in 1..Len(LeafNodes(lightModeVars)) |->
                                   LeafNodes(lightModeVars)[j].var], leaf.var) = 1)
               => resolved = JSString(leaf.value)

----------------------------------------------------------------------------
(* C2 *)

\* Each leaf of the theme is declared exactly once in the block, and the block
\* holds as many declarations as the theme has leaves.
BlockComplete(theme, modeVars, block) ==
    /\ Len(Lines(block)) = CountLeaves(OrEmpty(theme))
    /\ \A i \in 1..Len(LeafNodes(modeVars)) :
          Occurrences(Lines(block), ExpectedDeclaration(LeafNodes(modeVars)[i])) = 1

\* C2: every leaf of the light theme appears exactly once as a declaration of the
\* :root block of css, every leaf of the dark theme exactly once in the dark block,
\* and each block has as many declarations as its theme has leaves.
C2_StylesheetComplete ==
    pc = "returned" =>
        /\ css.s = S_root_open \o lightModeCss.s \o <<" ", "}">> \o S_media_open
                   \o S_root_open \o darkModeCss.s \o <<" ", "}", " ", "}">>
        /\ BlockComplete(light, lightModeVars, lightModeCss.s)
        /\ BlockComplete(dark, darkModeVars, darkModeCss.s)

----------------------------------------------------------------------------
(* C9 *)

\* C9: css is :root { L }@media (prefers-color-scheme: dark){ :root { D } } where L
\* and D are the declarations of the leaves of the light and of the dark theme,
\* joined by newlines, in depth-first key order.
C9_StylesheetFormat ==
    pc = "returned" =>
        css.s = S_root_open \o ExpectedBlock(lightModeVars) \o <<" ", "}">>
                \o S_media_open \o S_root_open \o ExpectedBlock(darkModeVars)
                \o <<" ", "}", " ", "}">>

----------------------------------------------------------------------------
(* C10 *)

\* C10: for themes of identical key structure, every reference at a leaf of vars
\* names a property declared in the light block and in the dark block, and the
\* two blocks declare the same property names.
C10_NoDanglingReference ==
    (pc = "returned" /\ Truthy(light) /\ Truthy(dark)) =>
        /\ DeclaredNames(lightModeCss.s) = DeclaredNames(darkModeCss.s)
        /\ \A ref \in LeafValues(vars) :
              \E n \in DeclaredNames(lightModeCss.s) \cap DeclaredNames(darkModeCss.s) :
                  ref.s = ReferenceTo(n)

----------------------------------------------------------------------------
(* C5, C6 *)

RECURSIVE TreesOnly(_, _)
\* Wherever new has a nested tree, old has a nested tree or nothing.
TreesOnly(old, new) ==
    \A i \in 1..Len(new.o) :
        new.o[i].val.t = "object" =>
            LET ov == Lookup(OwnProps(old), new.o[i].key)
            IN /\ ov.t \in {"undefined", "object"}
               /\ TreesOnly(IF ov.t = "object" THEN ov ELSE JSObject(<<>>), new.o[i].val)

RECURSIVE MergeAsStated(_, _)
\* The merge C5 describes: the key union; a nested tree of new merged with old's
\* subtree (the empty tree when old has none); otherwise new's value when truthy,
\* else old's.
MergeAsStated(old, new) ==
    LET ks == Keys(JSObject(Spread(old.o, new.o)))
    IN JSObject([i \in 1..Len(ks) |->
          LET nv == Lookup(new.o, ks[i])
              ov == Lookup(old.o, ks[i])
          IN [key |-> ks[i],
              val |-> IF nv.t = "object"
                      THEN MergeAsStated(IF ov.t = "object" THEN ov ELSE JSObject(<<>>), nv)
                      ELSE IF Truthy(nv) THEN nv ELSE ov]])

\* C5: mergeThemes(old, new) is the key-union merge in which a nested tree of new
\* is merged recursively with old's subtree and any other value of new wins when
\* truthy, old's value standing otherwise (stated for trees in which old has a
\* subtree or nothing wherever new has a subtree).
C5_MergeSemantics ==
    (pc = "done" /\ TreesOnly(oldThemeObject, newThemeObject)) =>
        merged = MergeAsStated(oldThemeObject, newThemeObject)

\* C6: no call of mergeThemes raises an error; where new has a nested tree at a
\* key old lacks, old's missing subtree counts as the empty tree.
C6_MergeNeverThrows ==
    pc = "done" => merged.t # "TypeError"

====
